---- MODULE Spec2Model ----
(***************************************************************************)
(* A model of optiopay/jsonpatch: Apply (encode.go) and deep.Copy.         *)
(*                                                                         *)
(* Go values live in a heap of cells.  A cell is the target of a pointer   *)
(* (a one-element sequence), the backing array of a slice (a sequence) or  *)
(* the table of a map (a function from keys to values).  A value is a      *)
(* record [t |-> its Go type, v |-> its payload]; a reflect.Value is       *)
(* either the zero Value, an addressable location of the heap, or a        *)
(* non-addressable copy of a value.  Strings that the code inspects (path  *)
(* segments, field names, tags, map keys) are sequences of characters;     *)
(* strings it only stores are atoms.                                       *)
(***************************************************************************)
EXTENDS Integers, Sequences, FiniteSets, TLC

VARIABLES
  heap,     \* the memory
  target,   \* Apply: the argument x
  hostvar,  \* Apply: where the caller keeps the host value
  data,     \* Apply: the shape of the patch document
  pc,       \* Apply: "call", "loop" (between two operations) or "done"
  ry,       \* Apply: the pointer to the working copy
  patches,  \* Apply: the operations the loop has taken from the document
  opres,    \* Apply: what each of them returned
  wprev,    \* Apply: the working copy before the last of them
  ret,      \* Apply: what Apply returned
  host0,    \* Apply: the host value before the call
  seq,      \* the same operations given to Apply one document each
  cx, cy, cret, cview, cmut,  \* deep.Copy on its own
  mfields, mname, mres        \* bestMatch on its own

vars == <<heap, target, hostvar, data, pc, ry, patches, opres, wprev, ret, host0, seq,
          cx, cy, cret, cview, cmut, mfields, mname, mres>>

applyVars == <<target, hostvar, data, pc, ry, patches, opres, wprev, ret, host0, seq>>
copyVars == <<cx, cy, cret, cview, cmut>>
matchVars == <<mfields, mname, mres>>

(***************************************************************************)
(* Characters and the string functions of the Go library the code calls.   *)
(***************************************************************************)
LowerChars == <<"a","b","c","d","e","f","g","h","i","j","k","l","m",
                "n","o","p","q","r","s","t","u","v","w","x","y","z">>
UpperChars == <<"A","B","C","D","E","F","G","H","I","J","K","L","M",
                "N","O","P","Q","R","S","T","U","V","W","X","Y","Z">>
DigitChars == <<"0","1","2","3","4","5","6","7","8","9">>

IsIn(c, chars) == \E i \in DOMAIN chars : chars[i] = c
PosIn(c, chars) == CHOOSE i \in DOMAIN chars : chars[i] = c

ToLowerChar(c) == IF IsIn(c, UpperChars) THEN LowerChars[PosIn(c, UpperChars)] ELSE c
ToUpperChar(c) == IF IsIn(c, LowerChars) THEN UpperChars[PosIn(c, LowerChars)] ELSE c

\* strings.ToLower
ToLower(s) == [i \in DOMAIN s |-> ToLowerChar(s[i])]

\* hyphens.ReplaceAllString(s, ""), hyphens = [\-_]
RECURSIVE StripHyphens(_)
StripHyphens(s) ==
  IF s = <<>> THEN <<>>
  ELSE IF Head(s) \in {"-", "_"} THEN StripHyphens(Tail(s))
       ELSE <<Head(s)>> \o StripHyphens(Tail(s))

\* strings.Title: the first letter of every word in upper case; a word starts
\* at the start of the string and after every character that is neither a
\* letter, a digit nor an underscore.
IsSeparator(c) ==
  ~(IsIn(c, LowerChars) \/ IsIn(c, UpperChars) \/ IsIn(c, DigitChars) \/ c = "_")
Title(s) ==
  [i \in DOMAIN s |->
     IF i = 1 \/ IsSeparator(s[i - 1]) THEN ToUpperChar(s[i]) ELSE s[i]]

\* strings.Trim(s, "/")
RECURSIVE TrimLeft(_)
TrimLeft(s) == IF s # <<>> /\ Head(s) = "/" THEN TrimLeft(Tail(s)) ELSE s
RECURSIVE TrimRight(_)
TrimRight(s) ==
  IF s # <<>> /\ s[Len(s)] = "/" THEN TrimRight(SubSeq(s, 1, Len(s) - 1)) ELSE s
Trim(s) == TrimRight(TrimLeft(s))

\* strings.SplitN(s, sep, 2) for a one-character separator: the part before
\* the first separator and the rest, or the string alone.
SplitN2(s, sep) ==
  IF \E i \in DOMAIN s : s[i] = sep
  THEN LET i == CHOOSE j \in DOMAIN s :
                  s[j] = sep /\ \A k \in 1..(j - 1) : s[k] # sep
       IN <<SubSeq(s, 1, i - 1), SubSeq(s, i + 1, Len(s))>>
  ELSE <<s>>

\* strings.Split(s, ",")
RECURSIVE Split(_, _)
Split(s, sep) ==
  LET parts == SplitN2(s, sep)
  IN IF Len(parts) = 1 THEN parts ELSE <<parts[1]>> \o Split(parts[2], sep)

\* strconv.Atoi: an optional sign and at least one decimal digit.
RECURSIVE DigitsValue(_, _)
DigitsValue(s, acc) ==
  IF s = <<>> THEN acc
  ELSE DigitsValue(Tail(s), 10 * acc + (PosIn(Head(s), DigitChars) - 1))
AllDigits(s) == s # <<>> /\ \A i \in DOMAIN s : IsIn(s[i], DigitChars)
Atoi(s) ==
  IF s # <<>> /\ Head(s) \in {"-", "+"}
  THEN IF AllDigits(Tail(s))
       THEN [ok |-> TRUE,
             n |-> IF Head(s) = "-" THEN 0 - DigitsValue(Tail(s), 0)
                   ELSE DigitsValue(Tail(s), 0)]
       ELSE [ok |-> FALSE, n |-> 0]
  ELSE IF AllDigits(s) THEN [ok |-> TRUE, n |-> DigitsValue(s, 0)]
       ELSE [ok |-> FALSE, n |-> 0]

(***************************************************************************)
(* Go types.                                                               *)
(***************************************************************************)
StringT == [k |-> "string"]
IntT == [k |-> "int"]
Float64T == [k |-> "float64"]
PtrTo(t) == [k |-> "ptr", e |-> t]
SliceOf(t) == [k |-> "slice", e |-> t]
MapOf(t) == [k |-> "map", e |-> t]
StructT(n) == [k |-> "struct", n |-> n]

F(name, tag, type) == [name |-> name, tag |-> tag, type |-> type]

\* type testUser of encode_test.go and type s of deepcopy_test.go.
testUser == StructT("testUser")
TypeFields(t) ==
  CASE t.n = "testUser" ->
         << F(<<"N","a","m","e">>, <<>>, StringT),
            F(<<"A","g","e">>, <<>>, IntT),
            F(<<"E","m","a","i","l">>, <<>>, StringT),
            F(<<"C","h","i","l","d">>, <<>>, PtrTo(StructT("testUser"))),
            F(<<"P","h","o","n","e","s">>, <<>>, SliceOf(StringT)),
            F(<<"M">>, <<>>, MapOf(StringT)) >>
    [] t.n = "s" ->
         << F(<<"A">>, <<>>, StringT),
            F(<<"B">>, <<>>, PtrTo(StructT("s"))) >>

NumField(t) == Len(TypeFields(t))

(***************************************************************************)
(* Values, the heap and reflect.Value.                                     *)
(***************************************************************************)
NilLoc == [a |-> 0, i |-> 0, p |-> <<>>]
Loc(a, i, path) == [a |-> a, i |-> i, p |-> path]

V(t, payload) == [t |-> t, v |-> payload]
Str(s) == V(StringT, s)
Num(n) == V(IntT, n)

RECURSIVE Zero(_), ZeroFields(_, _)
Zero(t) ==
  CASE t.k = "string" -> V(t, "")
    [] t.k \in {"int", "float64"} -> V(t, 0)
    [] t.k = "ptr" -> V(t, NilLoc)
    [] t.k \in {"slice", "map"} -> V(t, 0)
    [] t.k = "struct" -> V(t, ZeroFields(t, NumField(t)))
ZeroFields(t, n) ==
  IF n = 0 THEN <<>> ELSE Append(ZeroFields(t, n - 1), Zero(TypeFields(t)[n].type))
RECURSIVE Zeros(_, _)
Zeros(t, n) == IF n = 0 THEN <<>> ELSE Append(Zeros(t, n - 1), Zero(t))

ZeroRV == [rv |-> "zero"]
LV(loc) == [rv |-> "lv", loc |-> loc]
RVal(val) == [rv |-> "rval", val |-> val]

RECURSIVE Sub(_, _)
Sub(val, path) == IF path = <<>> THEN val ELSE Sub(val.v[Head(path)], Tail(path))
ReadLoc(h, loc) == Sub(h[loc.a][loc.i], loc.p)

RECURSIVE Upd(_, _, _)
Upd(val, path, new) ==
  IF path = <<>> THEN new
  ELSE [val EXCEPT !.v = [@ EXCEPT ![Head(path)] = Upd(@, Tail(path), new)]]
WriteLoc(h, loc, new) == [h EXCEPT ![loc.a] = [@ EXCEPT ![loc.i] = Upd(@, loc.p, new)]]

IsValid(r) == r.rv # "zero"
CanAddr(r) == r.rv = "lv"
Get(h, r) == IF r.rv = "lv" THEN ReadLoc(h, r.loc) ELSE r.val
Kind(h, r) == IF IsValid(r) THEN Get(h, r).t.k ELSE "invalid"
IsNil(h, r) == LET val == Get(h, r) IN IF val.t.k = "ptr" THEN val.v = NilLoc ELSE val.v = 0
Elem(h, r) == IF IsNil(h, r) THEN ZeroRV ELSE LV(Get(h, r).v)
Addr(h, r) == RVal(V(PtrTo(Get(h, r).t), r.loc))
SliceLen(h, r) == LET val == Get(h, r) IN IF val.v = 0 THEN 0 ELSE Len(h[val.v])
Index(h, r, i) == LV(Loc(Get(h, r).v, i + 1, <<>>))
Field(r, i) == IF r.rv = "lv" THEN LV([r.loc EXCEPT !.p = Append(@, i)])
               ELSE RVal(r.val.v[i])
MapIndex(h, r, key) ==
  LET val == Get(h, r)
  IN IF val.v # 0 /\ key \in DOMAIN h[val.v] THEN RVal(h[val.v][key]) ELSE ZeroRV
MapKeys(h, r) == LET val == Get(h, r) IN IF val.v = 0 THEN {} ELSE DOMAIN h[val.v]

FieldIndex(t, name) ==
  IF \E i \in 1..NumField(t) : TypeFields(t)[i].name = name
  THEN CHOOSE i \in 1..NumField(t) : TypeFields(t)[i].name = name
  ELSE 0
FieldByName(h, r, name) ==
  LET i == FieldIndex(Get(h, r).t, name) IN IF i = 0 THEN ZeroRV ELSE Field(r, i)

\* Results: the heap after the call and what the call returned ("nil", an
\* error, or "panic" when the call does not return).
R(h, err) == [h |-> h, err |-> err]
Failed(r) == r.err # "nil"

\* reflect.Value.Set: the target must be addressable and the value assignable.
Set(h, r, val) ==
  IF r.rv = "lv" /\ ReadLoc(h, r.loc).t = val.t
  THEN R(WriteLoc(h, r.loc, val), "nil")
  ELSE R(h, "panic")

\* reflect.New, reflect.MakeSlice, reflect.MakeMap: a fresh cell.
NewAddr(h) == Len(h) + 1
NewCell(h, t) == Append(h, <<Zero(t)>>)
NewPtr(h, t) == V(PtrTo(t), Loc(NewAddr(h), 1, <<>>))
MakeSliceCell(h, t, n) == Append(h, Zeros(t.e, n))
MakeMapCell(h) == Append(h, <<>>)

\* reflect.Value.SetMapIndex with a valid element.
SetMapIndex(h, r, key, val) ==
  LET m == Get(h, r)
  IN IF m.v = 0 \/ m.t.e # val.t THEN R(h, "panic")
     ELSE R([h EXCEPT ![m.v] = (key :> val) @@ @], "nil")

(***************************************************************************)
(* Observation of a value: the tree reflect.DeepEqual compares (a nil      *)
(* slice or map differs from an empty one, pointers are followed), and the *)
(* cells a value reaches.                                                  *)
(***************************************************************************)
RECURSIVE View(_, _)
View(h, val) ==
  CASE val.t.k = "ptr" ->
         IF val.v = NilLoc THEN V(val.t, <<>>)
         ELSE V(val.t, <<View(h, ReadLoc(h, val.v))>>)
    [] val.t.k = "slice" ->
         IF val.v = 0 THEN V(val.t, [nil |-> TRUE, e |-> <<>>])
         ELSE V(val.t, [nil |-> FALSE,
                        e |-> [i \in DOMAIN h[val.v] |-> View(h, h[val.v][i])]])
    [] val.t.k = "map" ->
         IF val.v = 0 THEN V(val.t, [nil |-> TRUE, e |-> <<>>])
         ELSE V(val.t, [nil |-> FALSE,
                        e |-> [key \in DOMAIN h[val.v] |-> View(h, h[val.v][key])]])
    [] val.t.k = "struct" -> V(val.t, [i \in DOMAIN val.v |-> View(h, val.v[i])])
    [] OTHER -> val

RECURSIVE Reach(_, _)
Reach(h, val) ==
  CASE val.t.k = "ptr" ->
         IF val.v = NilLoc THEN {}
         ELSE {val.v.a} \cup Reach(h, ReadLoc(h, val.v))
    [] val.t.k \in {"slice", "map"} ->
         IF val.v = 0 THEN {}
         ELSE {val.v} \cup UNION {Reach(h, h[val.v][i]) : i \in DOMAIN h[val.v]}
    [] val.t.k = "struct" -> UNION {Reach(h, val.v[i]) : i \in DOMAIN val.v}
    [] OTHER -> {}

(***************************************************************************)
(* Package deep: Copy.  The types of the model have no embedded fields.    *)
(***************************************************************************)
\* reflect.Indirect, and the "if x.Kind() == reflect.Ptr { x = x.Elem() }"
\* that opens every function of package deep.
Indirect(h, r) == IF Kind(h, r) = "ptr" THEN Elem(h, r) ELSE r

copyPrimitives(h, x0, y0) ==
  LET x == Indirect(h, x0)
      y == Indirect(h, y0)
  IN Set(h, y, Get(h, x))

IsExported(name) == name[1] = ToUpperChar(name[1])

RECURSIVE rcopy(_, _, _)
RECURSIVE copyArray(_, _, _)
RECURSIVE copyArrayLoop(_, _, _, _, _)
RECURSIVE copyMap(_, _, _)
RECURSIVE copyMapLoop(_, _, _, _)
RECURSIVE copyStruct(_, _, _)
RECURSIVE copyStructLoop(_, _, _, _, _)

rcopy(h, x0, y0) ==
  LET x == Indirect(h, x0)
      yptr == Kind(h, y0) = "ptr"
      r1 == IF yptr /\ IsNil(h, y0)
            THEN LET t == Get(h, y0).t.e IN Set(NewCell(h, t), y0, NewPtr(h, t))
            ELSE R(h, "nil")
      h1 == r1.h
      y == IF yptr THEN Elem(h1, y0) ELSE y0
      kx == Kind(h1, x)
  IN IF Failed(r1) THEN r1
     ELSE CASE kx = "slice" -> copyArray(h1, Addr(h1, x), Addr(h1, y))
            [] kx = "map" -> copyMap(h1, Addr(h1, x), Addr(h1, y))
            [] kx = "struct" -> copyStruct(h1, Addr(h1, x), Addr(h1, y))
            [] kx = "ptr" ->
                 LET vx == Elem(h1, x)
                 IN IF ~IsValid(vx) THEN R(h1, "panic")  \* vx.Type() of the zero Value
                    ELSE LET t == Get(h1, vx).t
                             r2 == Set(NewCell(h1, t), y, NewPtr(h1, t))
                             vy == Elem(r2.h, y)
                         IN IF Failed(r2) THEN r2
                            ELSE rcopy(r2.h, Addr(r2.h, vx), Addr(r2.h, vy))
            [] kx = "invalid" -> R(h1, "ErrUnsupported")
            [] OTHER ->
                 IF ~CanAddr(x) \/ ~CanAddr(y) THEN Set(h1, y, Get(h1, x))
                 ELSE copyPrimitives(h1, Addr(h1, x), Addr(h1, y))

copyArray(h, x0, y0) ==
  LET x == Indirect(h, x0)
      y == Indirect(h, y0)
      l == SliceLen(h, x)
      t == Get(h, x).t
      r1 == IF t.k = "slice"
            THEN Set(MakeSliceCell(h, t, l), y, V(t, NewAddr(h)))
            ELSE R(h, "nil")
  IN IF Failed(r1) THEN r1 ELSE copyArrayLoop(r1.h, x, y, 0, l)

copyArrayLoop(h, x, y, i, l) ==
  IF i >= l THEN R(h, "nil")
  ELSE LET vx == Index(h, x, i)
           vy == Index(h, y, i)
           r == IF Kind(h, vx) = "ptr" THEN rcopy(h, vx, vy)
                ELSE IF ~CanAddr(vx) THEN Set(h, vy, Get(h, vx))
                ELSE rcopy(h, Addr(h, vx), Addr(h, vy))
       IN IF Failed(r) THEN r ELSE copyArrayLoop(r.h, x, y, i + 1, l)

copyMap(h, x0, y0) ==
  LET x == Indirect(h, x0)
      y == Indirect(h, y0)
  IN IF IsNil(h, x) THEN R(h, "nil")
     ELSE LET r1 == Set(MakeMapCell(h), y, V(Get(h, x).t, NewAddr(h)))
          IN IF Failed(r1) THEN r1
             ELSE copyMapLoop(r1.h, x, y, MapKeys(r1.h, x))

\* The order in which range visits the keys does not show in the result.
copyMapLoop(h, x, y, keys) ==
  IF keys = {} THEN R(h, "nil")
  ELSE LET key == CHOOSE k \in keys : TRUE
           vx == MapIndex(h, x, key)
           r == IF Kind(h, vx) = "ptr"
                THEN LET el == Elem(h, vx)
                     IN IF ~IsValid(el) THEN R(h, "nil")
                        ELSE LET t == Get(h, el).t
                                 r2 == SetMapIndex(NewCell(h, t), y, key, NewPtr(h, t))
                                 vy == MapIndex(r2.h, y, key)
                             IN IF Failed(r2) THEN r2 ELSE rcopy(r2.h, vx, vy)
                ELSE \* !vx.CanAddr(): an element of a map is never addressable
                     SetMapIndex(h, y, key, Get(h, vx))
       IN IF Failed(r) THEN r ELSE copyMapLoop(r.h, x, y, keys \ {key})

copyStruct(h, x0, y0) ==
  LET x == Indirect(h, x0)
      y == Indirect(h, y0)
  IN IF Kind(h, x) = "ptr" THEN rcopy(h, x, y)
     ELSE LET r1 == IF IsValid(y) THEN Set(h, y, Get(h, x)) ELSE R(h, "nil")
          IN IF Failed(r1) THEN r1
             ELSE copyStructLoop(r1.h, x, y, 1, NumField(Get(h, x).t))

copyStructLoop(h, x, y, i, n) ==
  IF i > n THEN R(h, "nil")
  ELSE LET st == TypeFields(Get(h, x).t)[i]
           vx == Field(x, i)
           vy == Field(y, i)
           r == IF ~IsExported(st.name) THEN R(h, "nil")
                ELSE IF Kind(h, vx) = "ptr"
                THEN LET el == Elem(h, vx)
                     IN IF ~IsValid(el) THEN R(h, "nil")
                        ELSE LET t == Get(h, el).t
                                 r2 == Set(NewCell(h, t), vy, NewPtr(h, t))
                             IN IF Failed(r2) THEN r2 ELSE rcopy(r2.h, vx, vy)
                ELSE IF ~CanAddr(vx) THEN Set(h, vy, Get(h, vx))
                ELSE rcopy(h, Addr(h, vx), Addr(h, vy))
       IN IF Failed(r) THEN r ELSE copyStructLoop(r.h, x, y, i + 1, n)

\* deep.Copy(x, y)
Copy(h, x, y) ==
  IF Kind(h, x) # "ptr" THEN R(h, "ErrNonPointer")
  ELSE IF IsNil(h, x) THEN R(h, "nil")
  ELSE IF Kind(h, y) # "ptr" THEN R(h, "ErrNonPointer")
  ELSE rcopy(h, x, y)

(***************************************************************************)
(* Go composite literals: a value written as the tree View gives is laid   *)
(* out in the heap, every pointer, slice and map in a cell of its own.     *)
(***************************************************************************)
TNil(t) == V(t, <<>>)
TPtr(tree) == V(PtrTo(tree.t), <<tree>>)
TNilSlice(t) == V(t, [nil |-> TRUE, e |-> <<>>])
TSlice(t, elems) == V(t, [nil |-> FALSE, e |-> elems])
TNilMap(t) == V(t, [nil |-> TRUE, e |-> <<>>])
TMap(t, table) == V(t, [nil |-> FALSE, e |-> table])
TStruct(t, fields) == V(t, fields)

RECURSIVE Build(_, _)
RECURSIVE BuildSeq(_, _, _)
RECURSIVE BuildMap(_, _, _, _)
\* [h |-> the heap with the value laid out, val |-> the value]
Build(h, tree) ==
  CASE tree.t.k = "ptr" ->
         IF tree.v = <<>> THEN [h |-> h, val |-> V(tree.t, NilLoc)]
         ELSE LET r == Build(h, tree.v[1])
                  h2 == Append(r.h, <<r.val>>)
              IN [h |-> h2, val |-> V(tree.t, Loc(Len(h2), 1, <<>>))]
    [] tree.t.k = "slice" ->
         IF tree.v.nil THEN [h |-> h, val |-> V(tree.t, 0)]
         ELSE LET r == BuildSeq(h, tree.v.e, <<>>)
                  h2 == Append(r.h, r.val)
              IN [h |-> h2, val |-> V(tree.t, Len(h2))]
    [] tree.t.k = "map" ->
         IF tree.v.nil THEN [h |-> h, val |-> V(tree.t, 0)]
         ELSE LET r == BuildMap(h, tree.v.e, DOMAIN tree.v.e, <<>>)
                  h2 == Append(r.h, r.val)
              IN [h |-> h2, val |-> V(tree.t, Len(h2))]
    [] tree.t.k = "struct" ->
         LET r == BuildSeq(h, tree.v, <<>>)
         IN [h |-> r.h, val |-> V(tree.t, r.val)]
    [] OTHER -> [h |-> h, val |-> tree]

BuildSeq(h, trees, done) ==
  IF trees = <<>> THEN [h |-> h, val |-> done]
  ELSE LET r == Build(h, Head(trees))
       IN BuildSeq(r.h, Tail(trees), Append(done, r.val))

BuildMap(h, table, keys, done) ==
  IF keys = {} THEN [h |-> h, val |-> done]
  ELSE LET key == CHOOSE k \in keys : TRUE
           r == Build(h, table[key])
       IN BuildMap(r.h, table, keys \ {key},
                   (key :> r.val) @@ done)

\* A variable holding the value, and the pointer &variable.
Variable(h, tree) ==
  LET r == Build(h, tree)
      h2 == Append(r.h, <<r.val>>)
  IN [h |-> h2, val |-> V(PtrTo(tree.t), Loc(Len(h2), 1, <<>>))]

(***************************************************************************)
(* encoding/json as the code uses it.  The value of an operation is a JSON *)
(* string, a JSON number, or is missing (the RawMessage is empty).         *)
(***************************************************************************)
JStr(str) == [j |-> "string", v |-> str]
JNum(n) == [j |-> "number", v |-> n]
JAbsent == [j |-> "absent"]

\* json.Unmarshal(raw, ptr) with ptr a typed pointer to the location loc:
\* a nil pointer on the way is allocated, a literal of the wrong kind leaves
\* the target alone and is reported.
RECURSIVE DecodeInto(_, _, _)
DecodeInto(h, raw, loc) ==
  LET t == ReadLoc(h, loc).t
  IN CASE raw.j = "absent" -> R(h, "SyntaxError")
       [] raw.j # "absent" /\ t.k = "ptr" ->
            IF ReadLoc(h, loc).v = NilLoc
            THEN LET h1 == WriteLoc(NewCell(h, t.e), loc, NewPtr(h, t.e))
                 IN DecodeInto(h1, raw, ReadLoc(h1, loc).v)
            ELSE DecodeInto(h, raw, ReadLoc(h, loc).v)
       [] raw.j = "string" /\ t.k = "string" -> R(WriteLoc(h, loc, V(t, raw.v)), "nil")
       [] raw.j = "number" /\ t.k \in {"int", "float64"} ->
            R(WriteLoc(h, loc, V(t, raw.v)), "nil")
       [] OTHER -> R(h, "UnmarshalTypeError")

\* n := <held>; json.Unmarshal(raw, &n) with n an interface{}: a held
\* non-nil pointer is decoded into; anything else is replaced by the
\* literal's own Go value (a string, or a float64 for every number).
UnmarshalIface(h, raw, held) ==
  CASE raw.j = "absent" -> [h |-> h, err |-> "SyntaxError", n |-> held]
    [] raw.j # "absent" /\ held.t.k = "ptr" /\ held.v # NilLoc ->
         LET d == DecodeInto(h, raw, held.v) IN [h |-> d.h, err |-> d.err, n |-> held]
    [] raw.j = "string" /\ ~(held.t.k = "ptr" /\ held.v # NilLoc) ->
         [h |-> h, err |-> "nil", n |-> V(StringT, raw.v)]
    [] raw.j = "number" /\ ~(held.t.k = "ptr" /\ held.v # NilLoc) ->
         [h |-> h, err |-> "nil", n |-> V(Float64T, raw.v)]

\* reflect.DeepEqual of two interface values.
DeepEqual(h, a, b) == View(h, a) = View(h, b)

(***************************************************************************)
(* Package jsonpatch (encode.go).                                          *)
(***************************************************************************)
Op(kind, path, value) == [op |-> kind, path |-> path, value |-> value]

\* What the navigation returned, and what the operation function returned to
\* applyNode ("none" when the operation was not reached).
NR(h, err, operr) == [h |-> h, err |-> err, operr |-> operr]

RECURSIVE bestMatchFrom(_, _, _)
bestMatchFrom(name, fields, i) ==
  IF i > Len(fields) THEN <<>>
  ELSE LET field == fields[i]
           key == ToLower(StripHyphens(name))
           flags == Split(field.tag, ",")
           lname == ToLower(StripHyphens(field.name))
       IN IF field.name = name THEN field.name
          ELSE IF field.tag # <<>> /\ \E j \in DOMAIN flags : flags[j] = name
          THEN field.name
          ELSE IF key = lname THEN field.name
          ELSE bestMatchFrom(name, fields, i + 1)

\* bestMatch(name, t): fields is t.Field(0) .. t.Field(t.NumField()-1); the
\* empty name stands for "".
bestMatch(name, fields) == bestMatchFrom(name, fields, 1)

\* A nil pointer on the way is left nil.
MaterializeNothing(h, v0) == R(h, "nil")

\* The "if v.Kind() == reflect.Ptr { if v.IsNil() { v.Set(reflect.New(t)) };
\* v = v.Elem() }" that opens findNode and add.
Materialize(h, v0) ==
  IF Kind(h, v0) = "ptr" /\ IsNil(h, v0)
  THEN LET t == Get(h, v0).t.e IN Set(NewCell(h, t), v0, NewPtr(h, t))
  ELSE R(h, "nil")

\* An add that inserts after the element at the index.
addSliceAfter(h, node, op, v) ==
  LET sv == Get(h, v)
      l == SliceLen(h, v)
      old == IF sv.v = 0 THEN <<>> ELSE h[sv.v]
  IN IF node = <<"-">>
     THEN LET hsl == Append(h, Append(old, Zero(sv.t.e)))
              child == LV(Loc(Len(hsl), l + 1, <<>>))
              u == UnmarshalIface(hsl, op.value, Get(hsl, child))
              r1 == Set(u.h, child, u.n)
          IN IF u.err # "nil" THEN R(u.h, u.err)
             ELSE IF Failed(r1) THEN r1
             ELSE Set(r1.h, v, V(sv.t, Len(hsl)))
     ELSE LET a == Atoi(node)
          IN IF ~a.ok THEN R(h, "ErrIncorrectIndex")
             ELSE IF a.n < 0 \/ a.n >= l THEN R(h, "panic")  \* v.Index(pos)
             ELSE LET u == UnmarshalIface(h, op.value, Get(h, Index(h, v, a.n)))
                      cur == u.h[sv.v]
                      sl == SubSeq(cur, 1, a.n + 1) \o <<u.n>> \o SubSeq(cur, a.n + 2, l)
                  IN IF u.err # "nil" THEN R(u.h, u.err)
                     ELSE IF u.n.t # sv.t.e THEN R(u.h, "panic")  \* reflect.Append
                     ELSE Set(Append(u.h, sl), v, V(sv.t, NewAddr(u.h)))

addSlice(h, node, op, v) ==
  LET sv == Get(h, v)
      l == SliceLen(h, v)
      old == IF sv.v = 0 THEN <<>> ELSE h[sv.v]
  IN IF node = <<"-">>
     THEN LET hsl == Append(h, Append(old, Zero(sv.t.e)))
              child == LV(Loc(Len(hsl), l + 1, <<>>))
              u == UnmarshalIface(hsl, op.value, Get(hsl, child))
              r1 == Set(u.h, child, u.n)
          IN IF u.err # "nil" THEN R(u.h, u.err)
             ELSE IF Failed(r1) THEN r1
             ELSE Set(r1.h, v, V(sv.t, Len(hsl)))
     ELSE LET a == Atoi(node)
          IN IF ~a.ok THEN R(h, "ErrIncorrectIndex")
             ELSE IF a.n < 0 \/ a.n >= l THEN R(h, "panic")  \* v.Index(pos)
             ELSE LET u == UnmarshalIface(h, op.value, Get(h, Index(h, v, a.n)))
                      cur == u.h[sv.v]
                      sl == SubSeq(cur, 1, a.n) \o <<u.n>> \o SubSeq(cur, a.n + 1, l)
                  IN IF u.err # "nil" THEN R(u.h, u.err)
                     ELSE IF u.n.t # sv.t.e THEN R(u.h, "panic")  \* reflect.Append
                     ELSE Set(Append(u.h, sl), v, V(sv.t, NewAddr(u.h)))

addMap(h, node, op, v) ==
  LET r0 == IF IsNil(h, v) THEN Set(MakeMapCell(h), v, V(Get(h, v).t, NewAddr(h)))
            ELSE R(h, "nil")
      u == UnmarshalIface(r0.h, op.value, Zero(Get(h, v).t.e))
  IN IF Failed(r0) THEN r0
     ELSE IF u.err # "nil" THEN R(u.h, u.err)
     ELSE SetMapIndex(u.h, v, node, u.n)

\* n := reflect.New(t); err := json.Unmarshal(raw, n.Interface())
\* [h, err, loc |-> where n points]
DecodeNew(h, raw, t) ==
  LET h1 == NewCell(h, t)
      d == DecodeInto(h1, raw, Loc(Len(h1), 1, <<>>))
  IN [h |-> d.h, err |-> d.err, loc |-> Loc(Len(h1), 1, <<>>)]

addStruct(h, node, op, v) ==
  LET child == FieldByName(h, v, Title(node))
  IN IF ~IsValid(child) THEN R(h, "panic")  \* child.Type() of the zero Value
     ELSE IF Kind(h, child) = "ptr" /\ IsNil(h, child)
     THEN LET t == Get(h, child).t
              d == DecodeNew(h, op.value, t.e)
          IN IF d.err # "nil" THEN R(d.h, d.err)
             ELSE Set(d.h, child, V(t, d.loc))
     ELSE LET d == DecodeNew(h, op.value, Get(h, child).t)
          IN IF d.err # "nil" THEN R(d.h, d.err)
             ELSE Set(d.h, child, ReadLoc(d.h, d.loc))

add(h, node, op, v0) ==
  LET r0 == Materialize(h, v0)
      v == IF Kind(r0.h, v0) = "ptr" THEN Elem(r0.h, v0) ELSE v0
      k == Kind(r0.h, v)
  IN IF Failed(r0) THEN r0
     ELSE CASE k = "slice" -> addSlice(r0.h, node, op, v)
            [] k = "map" -> addMap(r0.h, node, op, v)
            [] k = "struct" -> addStruct(r0.h, node, op, v)
            [] k = "ptr" ->
                 \* reflect.ValueOf(el).Addr() of a value that is not addressable
                 IF op.value.j = "absent" THEN R(r0.h, "SyntaxError")
                 ELSE R(r0.h, "panic")
            [] OTHER -> R(r0.h, "nil")

replaceSlice(h, node, op, v) ==
  LET a == Atoi(node)
      l == SliceLen(h, v)
  IN IF ~a.ok THEN R(h, "ErrIncorrectIndex")
     ELSE IF a.n > l THEN R(h, "ErrIncorrectIndex")
     ELSE IF a.n < 0 \/ a.n >= l THEN R(h, "panic")  \* v.Index(pos)
     ELSE LET child == Index(h, v, a.n)
              u == UnmarshalIface(h, op.value, Get(h, child))
          IN IF u.err # "nil" THEN R(u.h, u.err)
             ELSE Set(u.h, child, u.n)

replaceMap(h, node, op, v) ==
  LET child == MapIndex(h, v, node)
  IN IF ~IsValid(child) THEN R(h, "map element not found")
     ELSE LET u == UnmarshalIface(h, op.value, Get(h, child))
          IN IF u.err # "nil" THEN R(u.h, u.err)
             ELSE SetMapIndex(u.h, v, node, u.n)

replaceStruct(h, node, op, v) ==
  LET child == FieldByName(h, v, Title(node))
  IN IF ~IsValid(child) THEN R(h, "panic")  \* child.Type() of the zero Value
     ELSE LET d == DecodeNew(h, op.value, Get(h, child).t)
          IN IF d.err # "nil" THEN R(d.h, d.err)
             ELSE Set(d.h, child, ReadLoc(d.h, d.loc))

replace(h, node, op, v0) ==
  LET v == Indirect(h, v0)
      k == Kind(h, v)
  IN CASE k = "slice" -> replaceSlice(h, node, op, v)
       [] k = "map" -> replaceMap(h, node, op, v)
       [] k = "struct" -> replaceStruct(h, node, op, v)
       [] k = "ptr" -> R(h, "ErrNotImplemented")
       [] OTHER -> R(h, "nil")

removeSlice(h, node, v) ==
  LET a == Atoi(node)
      sv == Get(h, v)
      l == SliceLen(h, v)
  IN IF ~a.ok THEN R(h, "ErrIncorrectIndex")
     ELSE IF l = 0 THEN R(h, "panic")  \* reflect.MakeSlice with a negative cap
     ELSE IF a.n < 0 \/ a.n > l THEN R(h, "panic")  \* v.Slice(0, pos)
     ELSE IF a.n + 1 > l THEN R(h, "panic")  \* v.Slice(pos+1, v.Len())
     ELSE Set(Append(h, SubSeq(h[sv.v], 1, a.n) \o SubSeq(h[sv.v], a.n + 2, l)),
              v, V(sv.t, NewAddr(h)))

\* A remove that deletes the key from the map.
RECURSIVE Restrict(_, _)
Restrict(table, keys) ==
  IF keys = {} THEN <<>>
  ELSE LET key == CHOOSE k \in keys : TRUE
       IN (key :> table[key]) @@ Restrict(table, keys \ {key})
removeMapDeletes(h, node, v) ==
  LET m == Get(h, v)
  IN IF m.v = 0 THEN R(h, "nil")
     ELSE R([h EXCEPT ![m.v] = Restrict(@, (DOMAIN @) \ {node})], "nil")

removeMap(h, node, v) ==
  LET child == MapIndex(h, v, node)
  IN IF ~IsValid(child) THEN R(h, "panic")  \* child.Type() of the zero Value
     ELSE SetMapIndex(h, v, node, Zero(Get(h, child).t))

removeStruct(h, node, v) ==
  LET child == FieldByName(h, v, Title(node))
  IN IF ~IsValid(child) THEN R(h, "panic")  \* child.Type() of the zero Value
     ELSE Set(h, child, Zero(Get(h, child).t))

remove(h, node, op, v0) ==
  LET v == Indirect(h, v0)
      k == Kind(h, v)
  IN CASE k = "slice" -> removeSlice(h, node, v)
       [] k = "map" -> removeMap(h, node, v)
       [] k = "struct" -> removeStruct(h, node, v)
       [] k = "ptr" -> R(h, "ErrNotImplemented")
       [] OTHER -> R(h, "nil")

\* The tail of test: n and m are child.Interface(), n is decoded over.
testChild(h, op, child) ==
  IF ~IsValid(child) THEN R(h, "panic")  \* child.Interface() of the zero Value
  ELSE LET m == Get(h, child)
           u == UnmarshalIface(h, op.value, m)
       IN IF u.err # "nil" THEN R(u.h, u.err)
          ELSE IF ~DeepEqual(u.h, u.n, m) THEN R(u.h, "elements are not equal")
          ELSE R(u.h, "nil")

testSlice(h, node, op, v) ==
  LET a == Atoi(node)
      l == SliceLen(h, v)
  IN IF ~a.ok THEN R(h, "ErrIncorrectIndex")
     ELSE IF a.n < 0 \/ a.n >= l THEN R(h, "panic")  \* v.Index(pos)
     ELSE LET child == Index(h, v, a.n)
          IN IF Kind(h, child) = "ptr"
             THEN IF IsNil(h, child) THEN R(h, "nil")
                  ELSE testChild(h, op, Indirect(h, child))
             ELSE testChild(h, op, child)

test(h, node, op, v0) ==
  LET v == Indirect(h, v0)
      k == Kind(h, v)
  IN CASE k = "slice" -> testSlice(h, node, op, v)
       [] k = "map" -> testChild(h, op, MapIndex(h, v, node))
       [] k = "struct" -> testChild(h, op, FieldByName(h, v, Title(node)))
       [] k = "ptr" -> R(h, "ErrNotImplemented")
       [] OTHER -> testChild(h, op, ZeroRV)

\* applyNode drops what the operation returns; a panic does not return.
applyNode(h, node, op, x) ==
  LET Dropped(r) ==
        IF r.err = "panic" THEN NR(r.h, "panic", "panic") ELSE NR(r.h, "nil", r.err)
  IN Dropped(CASE op.op = "add" -> add(h, node, op, x)
               [] op.op = "replace" -> replace(h, node, op, x)
               [] op.op = "remove" -> remove(h, node, op, x)
               [] op.op = "test" -> test(h, node, op, x)
               [] OTHER -> R(h, "nil"))

RECURSIVE rapply(_, _, _, _)
RECURSIVE findNode(_, _, _, _, _)

rapply(h, path, op, x) ==
  LET args == SplitN2(path, "/")
  IN IF Len(args) = 2 THEN findNode(h, args[1], args[2], op, x)
     ELSE applyNode(h, args[1], op, x)

\* The switch of findNode: [err, child]
findChild(h, root, x) ==
  LET k == Kind(h, x)
      a == Atoi(root)
      name == bestMatch(root, TypeFields(Get(h, x).t))
  IN CASE k = "slice" ->
            IF ~a.ok \/ a.n >= SliceLen(h, x)
            THEN [err |-> "ErrIncorrectIndex", child |-> ZeroRV]
            ELSE IF a.n < 0 THEN [err |-> "panic", child |-> ZeroRV]  \* x.Index(pos)
            ELSE [err |-> "nil", child |-> Index(h, x, a.n)]
       [] k = "map" -> [err |-> "nil", child |-> MapIndex(h, x, root)]
       [] k = "struct" ->
            IF name = <<>> THEN [err |-> "ErrIncorrectIndex", child |-> ZeroRV]
            ELSE [err |-> "nil", child |-> FieldByName(h, x, name)]
       [] k = "ptr" -> [err |-> "nil", child |-> Elem(h, x)]
       [] k = "invalid" -> [err |-> "ErrUnsupported", child |-> ZeroRV]
       [] OTHER -> [err |-> "ErrGarbage", child |-> ZeroRV]

\* findNode up to its call of rapply: [h, err, child], child what rapply gets
findNext(h, root, x0) ==
  LET Stop(h2, err) == [h |-> h2, err |-> err, child |-> ZeroRV]
      Go(h2, child) == [h |-> h2, err |-> "nil", child |-> child]
      Fresh(r1, child) == IF Failed(r1) THEN Stop(r1.h, r1.err) ELSE Go(r1.h, child)
      Child(h1, sel) ==
        IF sel.err # "nil" THEN Stop(h1, sel.err)
        ELSE IF Kind(h1, sel.child) = "ptr"
        THEN IF ~IsNil(h1, sel.child) THEN Go(h1, sel.child)
             ELSE Fresh(Materialize(h1, sel.child), sel.child)
        ELSE IF ~IsValid(sel.child) THEN Stop(h1, "panic")  \* child.Type() of the zero Value
        ELSE IF CanAddr(sel.child) THEN Go(h1, Addr(h1, sel.child))
        ELSE Stop(h1, "ErrUnsupported")
      Switch(h1, x) == Child(h1, findChild(h1, root, x))
      Start(r0) ==
        IF Failed(r0) THEN Stop(r0.h, r0.err)
        ELSE Switch(r0.h, IF Kind(r0.h, x0) = "ptr" THEN Elem(r0.h, x0) ELSE x0)
  IN Start(Materialize(h, x0))

findNode(h, root, node, op, x0) ==
  LET Descend(nx) ==
        IF nx.err # "nil" THEN NR(nx.h, nx.err, "none")
        ELSE rapply(nx.h, node, op, nx.child)
  IN Descend(findNext(h, root, x0))

TargetOk(h, x) == Kind(h, x) = "ptr" /\ ~IsNil(h, x)

\* A decoder that takes any document for an array of operations.
DecodesAnything(d) == TRUE

\* json.Unmarshal(data, &patches): the document must be an array.
Decodes(d) == d = "array"

\* Apply up to the loop: [h, err, ry]
applyBegin(h, x, d) ==
  IF ~TargetOk(h, x) THEN [h |-> h, err |-> "ErrNonPointer", ry |-> ZeroRV]
  ELSE IF ~Decodes(d) THEN [h |-> h, err |-> "UnmarshalError", ry |-> ZeroRV]
  ELSE IF Kind(h, x) # "ptr" \/ IsNil(h, x)
  THEN [h |-> h, err |-> "panic", ry |-> ZeroRV]  \* rx.Elem().Type()
  ELSE LET Copied(c, y) ==
             [h |-> c.h,
              err |-> IF c.err \in {"nil", "panic"} THEN c.err ELSE "ErrCouldNotCopy",
              ry |-> y]
           New(t, y) == Copied(Copy(NewCell(h, t), x, y), y)
           Typed(t) == New(t, RVal(NewPtr(h, t)))
       IN Typed(Get(h, x).t.e)

\* One turn of the loop over patches.
applyStep(h, y, op) == rapply(h, Trim(op.path), op, y)

\* rx.Elem().Set(ry.Elem())
applyCommit(h, x, y) ==
  IF ~IsValid(Elem(h, x)) THEN R(h, "panic")
  ELSE Set(h, Elem(h, x), Get(h, Elem(h, y)))

RECURSIVE applyLoop(_, _, _)
applyLoop(h, y, ops) ==
  IF ops = <<>> THEN NR(h, "nil", "none")
  ELSE LET Turn(r) == IF r.err # "nil" THEN r ELSE applyLoop(r.h, y, Tail(ops))
       IN Turn(applyStep(h, y, Head(ops)))

\* Apply(data, x) as a whole, for a document that holds ops.
Apply(h, x, d, ops) ==
  LET End(l, y) == IF l.err # "nil" THEN R(l.h, l.err) ELSE applyCommit(l.h, x, y)
      Loop(b) == IF b.err # "nil" THEN R(b.h, b.err) ELSE End(applyLoop(b.h, b.ry, ops), b.ry)
  IN Loop(applyBegin(h, x, d))

(***************************************************************************)
(* Apply, one turn of its loop at a time.  The document is read as the     *)
(* loop reads it: patches holds the operations taken so far.               *)
(***************************************************************************)
MaxOps == 2

Path(segs) ==
  IF Len(segs) = 1 THEN <<"/">> \o segs[1]
  ELSE <<"/">> \o segs[1] \o <<"/">> \o segs[2]

sName == <<"n","a","m","e">>
sAge == <<"a","g","e">>
sChild == <<"c","h","i","l","d">>
sPhones == <<"p","h","o","n","e","s">>
sM == <<"m">>
sBogus == <<"b","o","g","u","s">>

pName == Path(<<sName>>)
pAge == Path(<<sAge>>)
pChildName == Path(<<sChild, sName>>)
pPhones(seg) == Path(<<sPhones, seg>>)
pM(key) == Path(<<sM, key>>)
pElemName == Path(<<<<"0">>, sName>>)
pBogus == Path(<<sBogus, sName>>)

Paths ==
  { pName, pAge, pChildName, pPhones(<<"-">>), pPhones(<<"0">>), pPhones(<<"1">>),
    pPhones(<<"2">>), pM(<<"a">>), pM(<<"b">>), pElemName, pBogus }
ReplacePaths ==
  { pName, pChildName, pPhones(<<"0">>), pPhones(<<"1">>), pM(<<"a">>), pM(<<"b">>),
    pElemName, pBogus }
RemovePaths ==
  { pName, pChildName, pPhones(<<"0">>), pPhones(<<"1">>), pM(<<"a">>), pM(<<"b">>),
    pElemName }

Calvin == JStr("calvin")
Hobbes == JStr("hobbes")

\* More paths: an upper-case segment, a path of three segments, paths into a
\* sequence by an index, by an index past the end and by a negative index,
\* and a segment that names no field as the last one.
sNAME == <<"N","A","M","E">>
pChildChildName == <<"/">> \o sChild \o pChildName
pElem(seg) == Path(<<seg, sName>>)
NavOps ==
  { Op("add", pChildName, Hobbes), Op("add", pChildChildName, Calvin),
    Op("add", pElem(<<"1">>), Calvin), Op("add", pElem(<<"-","1">>), Calvin),
    Op("remove", Path(<<<<"0">>>>), JAbsent),
    Op("test", pChildName, JStr("")),
    Op("add", Path(<<sNAME>>), Calvin) }
    \cup {Op(kind, Path(<<sBogus>>), Calvin) : kind \in {"add", "replace", "remove", "test"}}

Ops ==
  NavOps
    \cup {Op("add", path, Calvin) : path \in Paths}
    \cup {Op("add", pPhones(<<"-">>), Hobbes), Op("add", pPhones(<<"-">>), JNum(100)),
          Op("add", pAge, JNum(100))}
    \cup {Op("replace", path, Calvin) : path \in ReplacePaths}
    \cup {Op("remove", path, JAbsent) : path \in RemovePaths}
    \cup {Op("test", pName, Hobbes), Op("test", pName, Calvin), Op("test", pAge, JNum(100)),
          Op("test", pM(<<"a">>), Calvin), Op("test", pPhones(<<"0">>), Calvin)}
    \cup {Op(kind, path, JAbsent) : kind \in {"copy", "move"}, path \in {pName, pChildName}}

\* The hosts of TestReplace, TestAdd and TestAddSlice.
NilChild == TNil(PtrTo(testUser))
User(name, age, child, phones, m) ==
  TStruct(testUser, <<Str(name), Num(age), Str(""), child, phones, m>>)
HostFull ==
  User("hobbes", 100,
       TPtr(User("Susie", 0, NilChild, TNilSlice(SliceOf(StringT)), TNilMap(MapOf(StringT)))),
       TSlice(SliceOf(StringT), <<Str("12830921")>>),
       TMap(MapOf(StringT), <<"a">> :> Str("hello")))
HostAdd ==
  User("", 0, NilChild, TSlice(SliceOf(StringT), <<Str("37489239")>>), TNilMap(MapOf(StringT)))
HostSlice ==
  TSlice(SliceOf(PtrTo(testUser)),
         <<TPtr(User("hobbes", 100, NilChild, TNilSlice(SliceOf(StringT)),
                     TNilMap(MapOf(StringT))))>>)
Hosts == {HostFull, HostAdd, HostSlice}

HostView(h) == View(h, ReadLoc(h, hostvar))
WcView(h) == View(h, Get(h, Elem(h, ry)))
LastOp == patches[Len(patches)]
LastRes == opres[Len(opres)]

Init ==
  /\ \E tree \in Hosts, how \in {"pointer", "nil", "value"} :
       LET a == Variable(<<>>, tree)
       IN /\ heap = a.h
          /\ hostvar = a.val.v
          /\ target = CASE how = "pointer" -> RVal(a.val)
                        [] how = "nil" -> RVal(V(a.val.t, NilLoc))
                        [] how = "value" -> RVal(ReadLoc(a.h, a.val.v))
          /\ host0 = View(a.h, ReadLoc(a.h, a.val.v))
          /\ seq = [h |-> a.h, ok |-> TRUE]
  /\ data \in {"array", "object"}
  /\ pc = "call"
  /\ ry = ZeroRV
  /\ patches = <<>>
  /\ opres = <<>>
  /\ wprev = <<>>
  /\ ret = "pending"
  /\ cx = <<>> /\ cy = <<>> /\ cret = "none" /\ cview = <<>> /\ cmut = "none"
  /\ mfields = <<>> /\ mname = <<>> /\ mres = <<>>

\* Apply is entered: the checks, the decoding of the document, the copy.
Begin ==
  /\ pc = "call"
  /\ LET Begun(b) ==
           /\ heap' = b.h
           /\ ry' = b.ry
           /\ IF b.err = "nil" THEN pc' = "loop" /\ ret' = ret
              ELSE pc' = "done" /\ ret' = b.err
     IN Begun(applyBegin(heap, target, data))
  /\ UNCHANGED <<target, hostvar, data, patches, opres, wprev, host0, seq>>
  /\ UNCHANGED <<copyVars, matchVars>>

\* The loop takes the next operation of the document, one of S.
PatchFrom(S) ==
  /\ pc = "loop"
  /\ Len(patches) < MaxOps
  /\ \E op \in S :
       LET Stepped(r) ==
             /\ heap' = r.h
             /\ patches' = Append(patches, op)
             /\ opres' = Append(opres, [nav |-> r.err, op |-> r.operr])
             /\ IF r.err = "nil" THEN pc' = "loop" /\ ret' = ret
                ELSE pc' = "done" /\ ret' = r.err
       IN Stepped(applyStep(heap, ry, op))
  /\ wprev' = WcView(heap)
  /\ UNCHANGED <<target, hostvar, data, ry, host0>>
  /\ UNCHANGED <<copyVars, matchVars>>

Patch == PatchFrom(Ops) /\ UNCHANGED seq

\* The document is at its end: the working copy becomes the host value.
Commit ==
  /\ pc = "loop"
  /\ LET Committed(c) == heap' = c.h /\ ret' = c.err
     IN Committed(applyCommit(heap, target, ry))
  /\ pc' = "done"
  /\ UNCHANGED <<target, hostvar, data, ry, patches, opres, wprev, host0, seq>>
  /\ UNCHANGED <<copyVars, matchVars>>

Next == Begin \/ Patch \/ Commit
Spec == Init /\ [][Next]_vars

(***************************************************************************)
(* Apply beside a second caller, who gives Apply the same operations one   *)
(* document each: seq.h is the memory of that caller.                      *)
(***************************************************************************)
Phone2 == JStr("8390240670")
Phone3 == JStr("9096040676")

OrderOps ==
  { Op("add", pName, Calvin), Op("add", pChildName, Calvin),
    Op("add", pPhones(<<"-">>), Phone2), Op("add", pPhones(<<"1">>), Phone3),
    Op("add", pM(<<"a">>), Calvin), Op("add", pBogus, Calvin),
    Op("replace", pPhones(<<"0">>), Calvin), Op("replace", pM(<<"b">>), Calvin),
    Op("replace", pElemName, Calvin),
    Op("remove", pPhones(<<"0">>), JAbsent), Op("remove", pM(<<"a">>), JAbsent),
    Op("test", pName, Hobbes), Op("copy", pName, JAbsent) }

PatchBoth ==
  /\ PatchFrom(OrderOps)
  /\ LET Second(s) == seq' = [h |-> s.h, ok |-> seq.ok /\ s.err = "nil"]
     IN Second(Apply(seq.h, target, data, <<patches'[Len(patches')]>>))

SeqView == View(seq.h, ReadLoc(seq.h, hostvar))

NextOrder == Begin \/ PatchBoth \/ Commit
SpecOrder == Init /\ [][NextOrder]_vars

(***************************************************************************)
(* deep.Copy on its own: Copy(&a, &b) with b the zero value of a's type,   *)
(* then one assignment through a reference nested in a or in b.            *)
(***************************************************************************)
MaxLen == 2

StrVals == {"hello", "world"}
sT == StructT("s")
Seqs(S, n) == UNION {[1..k -> S] : k \in 0..n}

SLeaf == {TStruct(sT, <<Str(a), TNil(PtrTo(sT))>>) : a \in StrVals}
STrees == SLeaf \cup {TStruct(sT, <<Str(a), TPtr(c)>>) : a \in StrVals, c \in SLeaf}
SPtrs == {TNil(PtrTo(sT))} \cup {TPtr(c) : c \in SLeaf}
StrSlices ==
  {TNilSlice(SliceOf(StringT))}
    \cup {TSlice(SliceOf(StringT), e) : e \in Seqs({Str(a) : a \in StrVals}, MaxLen)}
PtrSlices ==
  {TSlice(SliceOf(PtrTo(sT)), e) : e \in Seqs(SPtrs, MaxLen)}
MapKeySets == SUBSET {<<"a">>, <<"b">>}
StrMaps ==
  {TNilMap(MapOf(StringT))}
    \cup UNION {{TMap(MapOf(StringT), m) : m \in [ks -> {Str(a) : a \in StrVals}]}
                  : ks \in MapKeySets}
PtrMaps ==
  UNION {{TMap(MapOf(PtrTo(sT)), m) : m \in [ks -> SPtrs]} : ks \in SUBSET {<<"a">>}}
SliceMaps ==
  UNION {{TMap(MapOf(SliceOf(StringT)), m) : m \in [ks -> StrSlices]}
           : ks \in SUBSET {<<"a">>}}

CopyInputs ==
  STrees \cup (SPtrs \ {TNil(PtrTo(sT))}) \cup StrSlices \cup PtrSlices
    \cup StrMaps \cup PtrMaps \cup SliceMaps \cup {Str("hello"), Num(10)}

\* An assignment that changes a value held in a cell.
RECURSIVE Changed(_)
Changed(val) ==
  CASE val.t.k = "string" -> V(val.t, "mutated")
    [] val.t.k \in {"int", "float64"} -> V(val.t, val.v + 1)
    [] val.t.k = "struct" -> V(val.t, [val.v EXCEPT ![1] = Changed(@)])
    [] OTHER -> Zero(val.t)

InitCopy ==
  /\ \E tree \in CopyInputs :
       LET a == Variable(<<>>, tree)
           hb == NewCell(a.h, tree.t)
       IN /\ heap = hb
          /\ cx = a.val
          /\ cy = V(PtrTo(tree.t), Loc(Len(hb), 1, <<>>))
  /\ cret = "pending"
  /\ cview = <<>>
  /\ cmut = "none"
  /\ target = ZeroRV /\ hostvar = NilLoc /\ data = "none" /\ pc = "copy"
  /\ ry = ZeroRV /\ patches = <<>> /\ opres = <<>> /\ wprev = <<>>
  /\ ret = "pending" /\ host0 = <<>> /\ seq = <<>>
  /\ mfields = <<>> /\ mname = <<>> /\ mres = <<>>

ViewOf(h, ptr) == View(h, ReadLoc(h, ptr.v))

CallCopy ==
  /\ cret = "pending"
  /\ LET Called(r) ==
           /\ heap' = r.h
           /\ cret' = r.err
           /\ cview' = IF r.err = "nil"
                       THEN [x |-> ViewOf(r.h, cx), y |-> ViewOf(r.h, cy)]
                       ELSE <<>>
     IN Called(Copy(heap, RVal(cx), RVal(cy)))
  /\ UNCHANGED <<cx, cy, cmut>>
  /\ UNCHANGED applyVars
  /\ UNCHANGED matchVars

\* The caller assigns through a reference nested in one of the two values.
Mutate ==
  /\ cret = "nil"
  /\ cmut = "none"
  /\ \E side \in {"x", "y"} :
       LET root == IF side = "x" THEN cx ELSE cy
       IN \E a \in Reach(heap, ReadLoc(heap, root.v)) :
            \E slot \in DOMAIN heap[a] :
              /\ heap' = [heap EXCEPT ![a] = [@ EXCEPT ![slot] = Changed(@)]]
              /\ cmut' = side
  /\ UNCHANGED <<cx, cy, cret, cview>>
  /\ UNCHANGED applyVars
  /\ UNCHANGED matchVars

NextCopy == CallCopy \/ Mutate
SpecCopy == InitCopy /\ [][NextCopy]_vars

(***************************************************************************)
(* bestMatch on its own: a record type and a segment are drawn, and the    *)
(* resolver is called once.                                                *)
(***************************************************************************)
MaxFields == 2

FieldNames == {<<"A","b">>, <<"A","_","b">>, <<"B">>}
FieldTags == {<<>>, <<"a","b">>, <<"b",",","o","m","i","t","e","m","p","t","y">>}
Segments == {<<"A","b">>, <<"a","b">>, <<"a","-","b">>, <<"b">>, <<"B">>, <<"z","z">>}

FieldDecls == {F(name, tag, StringT) : name \in FieldNames, tag \in FieldTags}
RecordTypes ==
  UNION {{fs \in [1..n -> FieldDecls] : \A i, j \in 1..n : i # j => fs[i].name # fs[j].name}
         : n \in 1..MaxFields}

InitMatch ==
  /\ mfields \in RecordTypes
  /\ mname \in Segments
  /\ mres = <<>>
  /\ heap = <<>>
  /\ target = ZeroRV /\ hostvar = NilLoc /\ data = "none" /\ pc = "match"
  /\ ry = ZeroRV /\ patches = <<>> /\ opres = <<>> /\ wprev = <<>>
  /\ ret = "pending" /\ host0 = <<>> /\ seq = <<>>
  /\ cx = <<>> /\ cy = <<>> /\ cret = "none" /\ cview = <<>> /\ cmut = "none"

Resolve ==
  /\ pc = "match"
  /\ pc' = "matched"
  /\ mres' = bestMatch(mname, mfields)
  /\ UNCHANGED <<heap, mfields, mname>>
  /\ UNCHANGED <<target, hostvar, data, ry, patches, opres, wprev, ret, host0, seq>>
  /\ UNCHANGED copyVars

NextMatch == Resolve
SpecMatch == InitMatch /\ [][NextMatch]_vars

(***************************************************************************)
(* Properties.                                                             *)
(***************************************************************************)
\* A view with every nil sequence read as an empty one.
RECURSIVE Norm(_)
Norm(w) ==
  CASE w.t.k = "ptr" -> IF w.v = <<>> THEN w ELSE V(w.t, <<Norm(w.v[1])>>)
    [] w.t.k = "slice" -> V(w.t, [nil |-> FALSE, e |-> [i \in DOMAIN w.v.e |-> Norm(w.v.e[i])]])
    [] w.t.k = "map" -> V(w.t, [nil |-> w.v.nil, e |-> [key \in DOMAIN w.v.e |-> Norm(w.v.e[key])]])
    [] w.t.k = "struct" -> V(w.t, [i \in DOMAIN w.v |-> Norm(w.v[i])])
    [] OTHER -> w

OpFailed(r) == r.nav # "nil" \/ r.op \notin {"nil", "none"}
SomeOpFailed == \E i \in DOMAIN opres : OpFailed(opres[i])
Returned == pc = "done" /\ ret # "panic"
OnUser == patches # <<>> /\ host0.t = testUser
PhonesOf(w) == w.v[5].v.e
MOf(w) == w.v[6].v.e
InsertAt(s, i, val) == SubSeq(s, 1, i) \o <<val>> \o SubSeq(s, i + 1, Len(s))

\* C1: when some operation of the document failed, the host value after
\* Apply has returned is the host value before the call (here even with a
\* nil sequence taken to equal an empty one).
C1_Atomicity ==
  (Returned /\ SomeOpFailed) => Norm(HostView(heap)) = Norm(host0)

\* C2: no operation runs after one that failed; when an operation failed,
\* Apply returns an error; when Apply returns an error the host value is
\* the one before the call.
C2_ErrorPropagation ==
  /\ \A i \in DOMAIN opres : i < Len(opres) => ~OpFailed(opres[i])
  /\ (Returned /\ SomeOpFailed) => ret # "nil"
  /\ (Returned /\ ret # "nil") => HostView(heap) = host0

\* C4: when Apply has returned from a document whose last operation, a
\* copy or a move, was reached, it returned ErrNotImplemented and the host
\* value is the one before the call.
C4_CopyMoveNotImplemented ==
  (Returned /\ patches # <<>> /\ LastOp.op \in {"copy", "move"} /\ LastRes.nav = "nil")
    => ret = "ErrNotImplemented" /\ HostView(heap) = host0

\* C5: with a target that is not a non-nil pointer Apply returns
\* ErrNonPointer, with a document that is not an array of operations it
\* returns the decoding error; either way no operation has run, no copy was
\* made and the host value is the one before the call.
BadTarget == ~(target.val.t.k = "ptr" /\ target.val.v # NilLoc)
C5_RejectsBadInput ==
  (BadTarget \/ data # "array") =>
    /\ pc \in {"call", "done"}
    /\ patches = <<>>
    /\ ry = ZeroRV
    /\ HostView(heap) = host0
    /\ pc = "done" => ret = IF BadTarget THEN "ErrNonPointer" ELSE "UnmarshalError"
C5_Witness == pc = "done" /\ ~BadTarget /\ data = "object" /\ ret = "UnmarshalError"

\* C6: Copy succeeds, the copy deep-equals the original, and an assignment
\* made afterwards inside one of the two leaves the other as it was.
C6_CopyRoundTrip ==
  /\ cret \in {"pending", "nil"}
  /\ (cret = "nil" /\ cmut = "none") => ViewOf(heap, cy) = ViewOf(heap, cx)
  /\ cmut = "x" => ViewOf(heap, cy) = cview.y
  /\ cmut = "y" => ViewOf(heap, cx) = cview.x

\* C7: the resolver answers by the highest rule that any field of the type
\* satisfies: the declared name, then a name of the tag, then the normalized
\* name; it answers "" when no field satisfies any rule.
NormName(name) == ToLower(StripHyphens(name))
ByName == {i \in DOMAIN mfields : mfields[i].name = mname}
ByTag == {i \in DOMAIN mfields :
            \E j \in DOMAIN Split(mfields[i].tag, ",") : Split(mfields[i].tag, ",")[j] = mname}
ByNormalized == {i \in DOMAIN mfields : NormName(mfields[i].name) = NormName(mname)}
Highest == IF ByName # {} THEN ByName ELSE IF ByTag # {} THEN ByTag ELSE ByNormalized
C7_Precedence ==
  pc = "matched" =>
    IF Highest = {} THEN mres = <<>>
    ELSE \E i \in Highest : mres = mfields[i].name

\* C8: add on the sequence Phones of length L with a string: "-" appends,
\* an index i <= L inserts at i, an index > L returns ErrIncorrectIndex.
C8_AddSequence ==
  \A seg \in {<<"-">>, <<"0">>, <<"1">>, <<"2">>} :
    (OnUser /\ LastOp.op = "add" /\ LastOp.path = pPhones(seg) /\ LastOp.value.j = "string")
    => LET old == PhonesOf(wprev)
           val == Str(LastOp.value.v)
           i == Atoi(seg).n
       IN IF seg = <<"-">>
          THEN LastRes.op = "nil" /\ PhonesOf(WcView(heap)) = Append(old, val)
          ELSE IF i <= Len(old)
          THEN LastRes.op = "nil" /\ PhonesOf(WcView(heap)) = InsertAt(old, i, val)
          ELSE LastRes.op = "ErrIncorrectIndex"

\* C9: remove on the map M with the key present returns no error and
\* leaves the key in the map with the value "", the other keys as they
\* were; so it is in the host value after Apply returned nil.
C9_RemoveMapKeepsKey ==
  \A key \in {<<"a">>, <<"b">>} :
    (OnUser /\ LastOp = Op("remove", pM(key), JAbsent) /\ key \in DOMAIN MOf(wprev))
    => /\ LastRes = [nav |-> "nil", op |-> "nil"]
       /\ MOf(WcView(heap)) = [MOf(wprev) EXCEPT ![key] = Str("")]
       /\ (pc = "done" /\ ret = "nil") =>
            MOf(HostView(heap)) = [MOf(wprev) EXCEPT ![key] = Str("")]
C9_Witness ==
  /\ pc = "done" /\ ret = "nil" /\ OnUser
  /\ LastOp = Op("remove", pM(<<"a">>), JAbsent)
  /\ DOMAIN MOf(wprev) = {<<"a">>, <<"b">>}
  /\ MOf(HostView(heap))[<<"a">>] = Str("")
  /\ MOf(HostView(heap))[<<"b">>] = Str("calvin")

\* C10: replace on the map M with a string: with the key absent it returns
\* "map element not found", the map is as before and Apply does not return
\* nil; with the key present the value of the key becomes the string and
\* the keys are as before.  add on an absent key returns no error and
\* creates the key.
C10_ReplaceMapNeedsKey ==
  \A key \in {<<"a">>, <<"b">>} :
    /\ (OnUser /\ LastOp.op = "replace" /\ LastOp.path = pM(key) /\ LastOp.value.j = "string")
       => IF key \in DOMAIN MOf(wprev)
          THEN /\ LastRes.op = "nil"
               /\ MOf(WcView(heap)) = [MOf(wprev) EXCEPT ![key] = Str(LastOp.value.v)]
          ELSE /\ LastRes.op = "map element not found"
               /\ MOf(WcView(heap)) = MOf(wprev)
               /\ pc = "done" => ret # "nil"
    /\ (OnUser /\ LastOp.op = "add" /\ LastOp.path = pM(key) /\ LastOp.value.j = "string"
          /\ key \notin DOMAIN MOf(wprev))
       => /\ LastRes.op = "nil"
          /\ DOMAIN MOf(WcView(heap)) = DOMAIN MOf(wprev) \cup {key}
          /\ MOf(WcView(heap))[key] = Str(LastOp.value.v)

\* C3 as stated: whenever Apply returns, the host value is the one the
\* second caller has, who gave Apply the same operations one document each;
\* and the two adds on Phones = ["37489239"] give the three phones in order.
TwoAdds == <<Op("add", pPhones(<<"-">>), Phone2), Op("add", pPhones(<<"1">>), Phone3)>>
PhonesExample ==
  (pc = "done" /\ patches = TwoAdds /\ host0 = HostAdd)
    => /\ ret = "nil"
       /\ PhonesOf(HostView(heap)) = <<Str("37489239"), Str("9096040676"), Str("8390240670")>>
TestedAt(w, path) ==
  CASE path = pName -> <<w.v[1]>>
    [] path = pAge -> <<w.v[2]>>
    [] path = pM(<<"a">>) -> IF <<"a">> \in DOMAIN MOf(w) THEN <<MOf(w)[<<"a">>]>> ELSE <<>>
    [] path = pPhones(<<"0">>) -> IF PhonesOf(w) # <<>> THEN <<PhonesOf(w)[1]>> ELSE <<>>
    [] OTHER -> <<>>
\* A JSON string equals the same Go string, a JSON number the same Go number.
JsonEquals(raw, val) ==
  \/ raw.j = "string" /\ val.t.k = "string" /\ val.v = raw.v
  \/ raw.j = "number" /\ val.t.k \in {"int", "float64"} /\ val.v = raw.v

\* C11: a test of a path that holds a value returns no error exactly when
\* the value of the operation equals the current value (a JSON number and
\* an int of the same number are equal); otherwise it returns "elements are
\* not equal" and so does Apply, at once.
C11_TestOutcome ==
  (OnUser /\ LastOp.op = "test" /\ TestedAt(wprev, LastOp.path) # <<>>)
    => IF JsonEquals(LastOp.value, TestedAt(wprev, LastOp.path)[1])
       THEN LastRes = [nav |-> "nil", op |-> "nil"]
       ELSE /\ LastRes.op = "elements are not equal"
            /\ pc = "done"
            /\ ret = "elements are not equal"

\* C12: add of a string at /child/name (and at /child/child/name) with the
\* child nil: the operation returns no error, the working copy has a child
\* whose Name is the string and whose other fields are zero, nothing else
\* has changed, and after Apply returned nil the host value is that one.
ChildOf(w) == w.v[4].v
FreshUser == User("", 0, NilChild, TNilSlice(SliceOf(StringT)), TNilMap(MapOf(StringT)))
Named(name) == [FreshUser EXCEPT !.v[1] = Str(name)]
WithChild(w, child) == [w EXCEPT !.v[4] = TPtr(child)]
AddThroughNil(path) ==
  OnUser /\ LastOp.op = "add" /\ LastOp.path = path /\ LastOp.value.j = "string"
Materialized(w) ==
  /\ LastRes = [nav |-> "nil", op |-> "nil"]
  /\ WcView(heap) = w
  /\ (pc = "done" /\ ret = "nil") => HostView(heap) = w
C12_MaterializeOnNull ==
  /\ (AddThroughNil(pChildName) /\ ChildOf(wprev) = <<>>)
       => Materialized(WithChild(wprev, Named(LastOp.value.v)))
  /\ (AddThroughNil(pChildChildName) /\ ChildOf(wprev) = <<>>)
       => Materialized(WithChild(wprev, WithChild(FreshUser, Named(LastOp.value.v))))
  /\ (AddThroughNil(pChildChildName) /\ ChildOf(wprev) # <<>>
         /\ ChildOf(ChildOf(wprev)[1]) = <<>>)
       => Materialized(WithChild(wprev, WithChild(ChildOf(wprev)[1], Named(LastOp.value.v))))
C12_Witness ==
  /\ pc = "done" /\ ret = "nil" /\ host0 = HostAdd
  /\ patches = <<Op("add", pChildName, Hobbes)>>
  /\ ChildOf(host0) = <<>>
  /\ ChildOf(HostView(heap)) = <<Named("hobbes")>>

\* C13: on the sequence of length L, an operation whose path has the
\* segment before its last one outside 0..L-1, or not a number, is not
\* reached: the navigation returns ErrIncorrectIndex, so does Apply, and the
\* host value is the one before the call; with the segment in 0..L-1 the
\* operation is reached and works on that element.
OnSlice == patches # <<>> /\ host0.t.k = "slice"
ElemName(w, i) == w.v.e[i + 1].v[1].v[1]
C13_SequenceDescent ==
  \A seg \in {<<"0">>, <<"1">>, <<"-","1">>, sBogus} :
    (OnSlice /\ LastOp.path = pElem(seg))
    => IF Atoi(seg).ok /\ Atoi(seg).n >= 0 /\ Atoi(seg).n < Len(wprev.v.e)
       THEN /\ LastRes.nav = "nil"
            /\ LastRes.op # "none"
            /\ (LastOp.op \in {"add", "replace"} /\ LastOp.value.j = "string")
                 => ElemName(WcView(heap), Atoi(seg).n) = Str(LastOp.value.v)
       ELSE /\ LastRes = [nav |-> "ErrIncorrectIndex", op |-> "none"]
            /\ pc = "done"
            /\ ret = "ErrIncorrectIndex"
            /\ HostView(heap) = host0

\* C14: replace on the sequence Phones of length L with a string: an index
\* below L returns no error and changes that element alone; an index above
\* L returns ErrIncorrectIndex and the index L returns no error, both with
\* the sequence as it was.
C14_ReplaceSequence ==
  \A seg \in {<<"0">>, <<"1">>, <<"2">>} :
    (OnUser /\ LastOp.op = "replace" /\ LastOp.path = pPhones(seg)
       /\ LastOp.value.j = "string")
    => IF Atoi(seg).n < Len(PhonesOf(wprev))
       THEN /\ LastRes = [nav |-> "nil", op |-> "nil"]
            /\ PhonesOf(WcView(heap))
                 = [PhonesOf(wprev) EXCEPT ![Atoi(seg).n + 1] = Str(LastOp.value.v)]
       ELSE IF Atoi(seg).n > Len(PhonesOf(wprev))
       THEN /\ LastRes = [nav |-> "nil", op |-> "ErrIncorrectIndex"]
            /\ PhonesOf(WcView(heap)) = PhonesOf(wprev)
       ELSE /\ LastRes = [nav |-> "nil", op |-> "nil"]
            /\ PhonesOf(WcView(heap)) = PhonesOf(wprev)

\* C15: remove on the sequence Phones of length L with an index: either it
\* returns no error, the index is below L and the sequence is the one
\* before without the element at the index, or it returns an error.
RemoveAt(s, i) == SubSeq(s, 1, i) \o SubSeq(s, i + 2, Len(s))
C15_RemoveSequence ==
  \A seg \in {<<"0">>, <<"1">>} :
    (OnUser /\ LastOp.op = "remove" /\ LastOp.path = pPhones(seg))
    => \/ /\ LastRes = [nav |-> "nil", op |-> "nil"]
          /\ Atoi(seg).n < Len(PhonesOf(wprev))
          /\ PhonesOf(WcView(heap)) = RemoveAt(PhonesOf(wprev), Atoi(seg).n)
       \/ /\ LastRes.nav = "nil"
          /\ LastRes.op \notin {"nil", "none", "panic"}

\* C16: when Apply has returned nil from a document of test operations
\* that all returned no error, the host value is the one before the call
\* (here even with a nil sequence taken to equal an empty one).
TestsOnly == patches # <<>> /\ \A i \in DOMAIN patches : patches[i].op = "test"
C16_TestReadOnly ==
  (pc = "done" /\ ret = "nil" /\ TestsOnly /\ ~SomeOpFailed)
    => Norm(HostView(heap)) = Norm(host0)

\* C17: an operation whose path is one segment acts on the field of the
\* testUser that the navigation takes the segment for (bestMatch): add and
\* replace of a string set that field, remove clears it, test reads it;
\* when the segment is no field the operation returns ErrIncorrectIndex,
\* as the navigation does for a path that goes on after the segment, and
\* the working copy is as before.
Resolved(seg) == bestMatch(seg, TypeFields(testUser))
WithField(w, name, val) == [w EXCEPT !.v[FieldIndex(testUser, name)] = val]
C17_FieldResolution ==
  \A seg \in {sName, sNAME, sBogus} :
    /\ (OnUser /\ LastOp.path = Path(<<seg>>)
          /\ LastOp.op \in {"add", "replace", "remove", "test"})
       => IF Resolved(seg) = <<>>
          THEN /\ LastRes = [nav |-> "nil", op |-> "ErrIncorrectIndex"]
               /\ WcView(heap) = wprev
          ELSE CASE LastOp.op \in {"add", "replace"} ->
                      /\ LastRes = [nav |-> "nil", op |-> "nil"]
                      /\ WcView(heap) = WithField(wprev, Resolved(seg), Str(LastOp.value.v))
                 [] LastOp.op = "remove" ->
                      /\ LastRes = [nav |-> "nil", op |-> "nil"]
                      /\ WcView(heap) = WithField(wprev, Resolved(seg), Str(""))
                 [] LastOp.op = "test" ->
                      /\ LastRes.nav = "nil"
                      /\ LastRes.op \in {"nil", "elements are not equal"}
                      /\ WcView(heap) = wprev
    /\ (OnUser /\ LastOp.path = Path(<<seg, sName>>) /\ Resolved(seg) = <<>>)
       => /\ LastRes = [nav |-> "ErrIncorrectIndex", op |-> "none"]
          /\ WcView(heap) = wprev

====
